---- MODULE Spec2Model ----
(***************************************************************************)
(* A model of fb-msg-analysis: the FBMetadata registry of models.py, which *)
(* loads Facebook message exports (one JSON document per conversation)     *)
(* into persons, chats and messages, and the query functions of main.py.   *)
(*                                                                         *)
(* Representation                                                          *)
(*   - A Python str that the code takes apart (sorted(), lower(), `in`) is *)
(*     the sequence of its code points: names, contents, keywords.         *)
(*     A str the code only compares for equality (title, thread_type,      *)
(*     type, uri, reaction) is a TLA+ string.                              *)
(*   - A JSON object / Python dict is a function; `k in d` is              *)
(*     k \in DOMAIN d.  A raw record that lacks a key lacks it in DOMAIN.  *)
(*   - An optional Python value is None (the empty sequence) or Some(v)    *)
(*     (the one-element sequence <<v>>), so that None differs from [].     *)
(*   - The value a message record gives one of its optional keys (content, *)
(*     photos, videos, share, reactions) is a JSON value that may be null: *)
(*     json.load gives None for null, so null is None and any other value  *)
(*     v is Some(v).  A record has three cases per optional key: the key   *)
(*     is absent, it holds null, it holds a value ([] and "" included).    *)
(*   - An object reference is an index: a person is referred to by its     *)
(*     position in FBMetadata.persons, a chat by its position in heap, the *)
(*     sequence of all FBChat objects ever constructed.  NoneRef is the    *)
(*     None returned by the find_* methods.                                *)
(*   - An instance of a class carries its class name in the field "class", *)
(*     which a raw dict never has.                                         *)
(***************************************************************************)
EXTENDS Integers, Sequences, FiniteSets

VARIABLES
    files,        \* the export on disk: path -> deserialized JSON document
    persons,      \* FBMetadata.persons
    chats,        \* FBMetadata.chats: references to the 1-on-1 chats
    group_chats,  \* FBMetadata.group_chats: references to the group chats
    heap,         \* every FBChat object constructed so far, by reference
    last,         \* the last call made: its arguments and what it returned or raised
    entered,      \* the paths from_entry has been called with
    ncalls        \* number of calls made so far that change the registry

vars == <<files, persons, chats, group_chats, heap, last, entered, ncalls>>

(***************************************************************************)
(* Bounds of the model.                                                    *)
(***************************************************************************)
MaxCalls == 3          \* calls on one registry that change it
MaxMessages == 3       \* messages of the main document
MaxRichMessages == 2   \* messages of the main document, when they carry optional fields

(***************************************************************************)
(* Python values.                                                          *)
(***************************************************************************)
None == <<>>
Some(v) == <<v>>
NoneRef == 0

Range(s) == {s[i] : i \in 1..Len(s)}

Min(S) == CHOOSE x \in S : \A y \in S : x <= y

Max(S) == CHOOSE x \in S : \A y \in S : y <= x

RECURSIVE SeqsUpTo(_, _)
SeqsUpTo(S, n) ==
    IF n = 0 THEN {<<>>}
    ELSE LET shorter == SeqsUpTo(S, n - 1)
         IN  shorter \cup {Append(s, x) : s \in {t \in shorter : Len(t) = n - 1}, x \in S}

\* str.__lt__: lexicographic by code point, a proper prefix is smaller.
RECURSIVE str_lt(_, _)
str_lt(s, t) ==
    IF t = <<>> THEN FALSE
    ELSE IF s = <<>> THEN TRUE
    ELSE IF s[1] # t[1] THEN s[1] < t[1]
    ELSE str_lt(Tail(s), Tail(t))

\* One step of a stable insertion: x goes after the elements not greater than it.
RECURSIVE insert_sorted(_, _)
insert_sorted(x, l) ==
    IF l = <<>> THEN <<x>>
    ELSE IF str_lt(x, Head(l)) THEN <<x>> \o l
    ELSE <<Head(l)>> \o insert_sorted(x, Tail(l))

\* sorted(list of str) and list.sort(): ascending, stable.
RECURSIVE sorted(_)
sorted(l) ==
    IF l = <<>> THEN <<>>
    ELSE insert_sorted(l[Len(l)], sorted(SubSeq(l, 1, Len(l) - 1)))

(***************************************************************************)
(* str.lower(), as CPython 3.11 computes it from its Unicode database      *)
(* (Unicode 14.0.0).  The three tables below are that database's lower     *)
(* case mappings and its Cased and Case_Ignorable properties, over all the *)
(* code points 0..1114111.                                                 *)
(***************************************************************************)
\* The one-to-one lower case mappings, as <<first, last, step, delta>>: the code
\* points first, first + step, .. last go to the code point delta above them
\* (below, when delta is negative).
LowerRules ==
    <<<<65, 90, 1, 32>>, <<192, 214, 1, 32>>, <<216, 222, 1, 32>>, <<256, 302, 2, 1>>,
      <<306, 310, 2, 1>>, <<313, 327, 2, 1>>, <<330, 374, 2, 1>>, <<376, 376, 1, -121>>,
      <<377, 381, 2, 1>>, <<385, 385, 1, 210>>, <<386, 388, 2, 1>>, <<390, 390, 1, 206>>,
      <<391, 391, 1, 1>>, <<393, 394, 1, 205>>, <<395, 395, 1, 1>>, <<398, 398, 1, 79>>,
      <<399, 399, 1, 202>>, <<400, 400, 1, 203>>, <<401, 401, 1, 1>>, <<403, 403, 1, 205>>,
      <<404, 404, 1, 207>>, <<406, 406, 1, 211>>, <<407, 407, 1, 209>>, <<408, 408, 1, 1>>,
      <<412, 412, 1, 211>>, <<413, 413, 1, 213>>, <<415, 415, 1, 214>>, <<416, 420, 2, 1>>,
      <<422, 422, 1, 218>>, <<423, 423, 1, 1>>, <<425, 425, 1, 218>>, <<428, 428, 1, 1>>,
      <<430, 430, 1, 218>>, <<431, 431, 1, 1>>, <<433, 434, 1, 217>>, <<435, 437, 2, 1>>,
      <<439, 439, 1, 219>>, <<440, 440, 1, 1>>, <<444, 444, 1, 1>>, <<452, 452, 1, 2>>,
      <<453, 453, 1, 1>>, <<455, 455, 1, 2>>, <<456, 456, 1, 1>>, <<458, 458, 1, 2>>,
      <<459, 475, 2, 1>>, <<478, 494, 2, 1>>, <<497, 497, 1, 2>>, <<498, 500, 2, 1>>,
      <<502, 502, 1, -97>>, <<503, 503, 1, -56>>, <<504, 542, 2, 1>>, <<544, 544, 1, -130>>,
      <<546, 562, 2, 1>>, <<570, 570, 1, 10795>>, <<571, 571, 1, 1>>, <<573, 573, 1, -163>>,
      <<574, 574, 1, 10792>>, <<577, 577, 1, 1>>, <<579, 579, 1, -195>>, <<580, 580, 1, 69>>,
      <<581, 581, 1, 71>>, <<582, 590, 2, 1>>, <<880, 882, 2, 1>>, <<886, 886, 1, 1>>,
      <<895, 895, 1, 116>>, <<902, 902, 1, 38>>, <<904, 906, 1, 37>>, <<908, 908, 1, 64>>,
      <<910, 911, 1, 63>>, <<913, 929, 1, 32>>, <<931, 939, 1, 32>>, <<975, 975, 1, 8>>,
      <<984, 1006, 2, 1>>, <<1012, 1012, 1, -60>>, <<1015, 1015, 1, 1>>, <<1017, 1017, 1, -7>>,
      <<1018, 1018, 1, 1>>, <<1021, 1023, 1, -130>>, <<1024, 1039, 1, 80>>, <<1040, 1071, 1, 32>>,
      <<1120, 1152, 2, 1>>, <<1162, 1214, 2, 1>>, <<1216, 1216, 1, 15>>, <<1217, 1229, 2, 1>>,
      <<1232, 1326, 2, 1>>, <<1329, 1366, 1, 48>>, <<4256, 4293, 1, 7264>>, <<4295, 4295, 1, 7264>>,
      <<4301, 4301, 1, 7264>>, <<5024, 5103, 1, 38864>>, <<5104, 5109, 1, 8>>, <<7312, 7354, 1, -3008>>,
      <<7357, 7359, 1, -3008>>, <<7680, 7828, 2, 1>>, <<7838, 7838, 1, -7615>>, <<7840, 7934, 2, 1>>,
      <<7944, 7951, 1, -8>>, <<7960, 7965, 1, -8>>, <<7976, 7983, 1, -8>>, <<7992, 7999, 1, -8>>,
      <<8008, 8013, 1, -8>>, <<8025, 8031, 2, -8>>, <<8040, 8047, 1, -8>>, <<8072, 8079, 1, -8>>,
      <<8088, 8095, 1, -8>>, <<8104, 8111, 1, -8>>, <<8120, 8121, 1, -8>>, <<8122, 8123, 1, -74>>,
      <<8124, 8124, 1, -9>>, <<8136, 8139, 1, -86>>, <<8140, 8140, 1, -9>>, <<8152, 8153, 1, -8>>,
      <<8154, 8155, 1, -100>>, <<8168, 8169, 1, -8>>, <<8170, 8171, 1, -112>>, <<8172, 8172, 1, -7>>,
      <<8184, 8185, 1, -128>>, <<8186, 8187, 1, -126>>, <<8188, 8188, 1, -9>>, <<8486, 8486, 1, -7517>>,
      <<8490, 8490, 1, -8383>>, <<8491, 8491, 1, -8262>>, <<8498, 8498, 1, 28>>, <<8544, 8559, 1, 16>>,
      <<8579, 8579, 1, 1>>, <<9398, 9423, 1, 26>>, <<11264, 11311, 1, 48>>, <<11360, 11360, 1, 1>>,
      <<11362, 11362, 1, -10743>>, <<11363, 11363, 1, -3814>>, <<11364, 11364, 1, -10727>>, <<11367, 11371, 2, 1>>,
      <<11373, 11373, 1, -10780>>, <<11374, 11374, 1, -10749>>, <<11375, 11375, 1, -10783>>, <<11376, 11376, 1, -10782>>,
      <<11378, 11378, 1, 1>>, <<11381, 11381, 1, 1>>, <<11390, 11391, 1, -10815>>, <<11392, 11490, 2, 1>>,
      <<11499, 11501, 2, 1>>, <<11506, 11506, 1, 1>>, <<42560, 42604, 2, 1>>, <<42624, 42650, 2, 1>>,
      <<42786, 42798, 2, 1>>, <<42802, 42862, 2, 1>>, <<42873, 42875, 2, 1>>, <<42877, 42877, 1, -35332>>,
      <<42878, 42886, 2, 1>>, <<42891, 42891, 1, 1>>, <<42893, 42893, 1, -42280>>, <<42896, 42898, 2, 1>>,
      <<42902, 42920, 2, 1>>, <<42922, 42922, 1, -42308>>, <<42923, 42923, 1, -42319>>, <<42924, 42924, 1, -42315>>,
      <<42925, 42925, 1, -42305>>, <<42926, 42926, 1, -42308>>, <<42928, 42928, 1, -42258>>, <<42929, 42929, 1, -42282>>,
      <<42930, 42930, 1, -42261>>, <<42931, 42931, 1, 928>>, <<42932, 42946, 2, 1>>, <<42948, 42948, 1, -48>>,
      <<42949, 42949, 1, -42307>>, <<42950, 42950, 1, -35384>>, <<42951, 42953, 2, 1>>, <<42960, 42960, 1, 1>>,
      <<42966, 42968, 2, 1>>, <<42997, 42997, 1, 1>>, <<65313, 65338, 1, 32>>, <<66560, 66599, 1, 40>>,
      <<66736, 66771, 1, 40>>, <<66928, 66938, 1, 39>>, <<66940, 66954, 1, 39>>, <<66956, 66962, 1, 39>>,
      <<66964, 66965, 1, 39>>, <<68736, 68786, 1, 64>>, <<71840, 71871, 1, 32>>, <<93760, 93791, 1, 32>>,
      <<125184, 125217, 1, 34>>>>

\* The code points with the property Cased, as <<first, last>>.
CasedRanges ==
    <<<<65, 90>>, <<97, 122>>, <<170, 170>>, <<181, 181>>, <<186, 186>>, <<192, 214>>,
      <<216, 246>>, <<248, 442>>, <<444, 447>>, <<452, 659>>, <<661, 696>>, <<704, 705>>,
      <<736, 740>>, <<837, 837>>, <<880, 883>>, <<886, 887>>, <<890, 893>>, <<895, 895>>,
      <<902, 902>>, <<904, 906>>, <<908, 908>>, <<910, 929>>, <<931, 1013>>, <<1015, 1153>>,
      <<1162, 1327>>, <<1329, 1366>>, <<1376, 1416>>, <<4256, 4293>>, <<4295, 4295>>, <<4301, 4301>>,
      <<4304, 4346>>, <<4349, 4351>>, <<5024, 5109>>, <<5112, 5117>>, <<7296, 7304>>, <<7312, 7354>>,
      <<7357, 7359>>, <<7424, 7615>>, <<7680, 7957>>, <<7960, 7965>>, <<7968, 8005>>, <<8008, 8013>>,
      <<8016, 8023>>, <<8025, 8025>>, <<8027, 8027>>, <<8029, 8029>>, <<8031, 8061>>, <<8064, 8116>>,
      <<8118, 8124>>, <<8126, 8126>>, <<8130, 8132>>, <<8134, 8140>>, <<8144, 8147>>, <<8150, 8155>>,
      <<8160, 8172>>, <<8178, 8180>>, <<8182, 8188>>, <<8305, 8305>>, <<8319, 8319>>, <<8336, 8348>>,
      <<8450, 8450>>, <<8455, 8455>>, <<8458, 8467>>, <<8469, 8469>>, <<8473, 8477>>, <<8484, 8484>>,
      <<8486, 8486>>, <<8488, 8488>>, <<8490, 8493>>, <<8495, 8500>>, <<8505, 8505>>, <<8508, 8511>>,
      <<8517, 8521>>, <<8526, 8526>>, <<8544, 8575>>, <<8579, 8580>>, <<9398, 9449>>, <<11264, 11492>>,
      <<11499, 11502>>, <<11506, 11507>>, <<11520, 11557>>, <<11559, 11559>>, <<11565, 11565>>, <<42560, 42605>>,
      <<42624, 42653>>, <<42786, 42887>>, <<42891, 42894>>, <<42896, 42954>>, <<42960, 42961>>, <<42963, 42963>>,
      <<42965, 42969>>, <<42997, 42998>>, <<43000, 43002>>, <<43824, 43866>>, <<43868, 43880>>, <<43888, 43967>>,
      <<64256, 64262>>, <<64275, 64279>>, <<65313, 65338>>, <<65345, 65370>>, <<66560, 66639>>, <<66736, 66771>>,
      <<66776, 66811>>, <<66928, 66938>>, <<66940, 66954>>, <<66956, 66962>>, <<66964, 66965>>, <<66967, 66977>>,
      <<66979, 66993>>, <<66995, 67001>>, <<67003, 67004>>, <<67456, 67456>>, <<67459, 67461>>, <<67463, 67504>>,
      <<67506, 67514>>, <<68736, 68786>>, <<68800, 68850>>, <<71840, 71903>>, <<93760, 93823>>, <<119808, 119892>>,
      <<119894, 119964>>, <<119966, 119967>>, <<119970, 119970>>, <<119973, 119974>>, <<119977, 119980>>, <<119982, 119993>>,
      <<119995, 119995>>, <<119997, 120003>>, <<120005, 120069>>, <<120071, 120074>>, <<120077, 120084>>, <<120086, 120092>>,
      <<120094, 120121>>, <<120123, 120126>>, <<120128, 120132>>, <<120134, 120134>>, <<120138, 120144>>, <<120146, 120485>>,
      <<120488, 120512>>, <<120514, 120538>>, <<120540, 120570>>, <<120572, 120596>>, <<120598, 120628>>, <<120630, 120654>>,
      <<120656, 120686>>, <<120688, 120712>>, <<120714, 120744>>, <<120746, 120770>>, <<120772, 120779>>, <<122624, 122633>>,
      <<122635, 122654>>, <<125184, 125251>>, <<127280, 127305>>, <<127312, 127337>>, <<127344, 127369>>>>

\* The code points with the property Case_Ignorable, as <<first, last>>.
CaseIgnorableRanges ==
    <<<<39, 39>>, <<46, 46>>, <<58, 58>>, <<94, 94>>, <<96, 96>>, <<168, 168>>,
      <<173, 173>>, <<175, 175>>, <<180, 180>>, <<183, 184>>, <<688, 879>>, <<884, 885>>,
      <<890, 890>>, <<900, 901>>, <<903, 903>>, <<1155, 1161>>, <<1369, 1369>>, <<1375, 1375>>,
      <<1425, 1469>>, <<1471, 1471>>, <<1473, 1474>>, <<1476, 1477>>, <<1479, 1479>>, <<1524, 1524>>,
      <<1536, 1541>>, <<1552, 1562>>, <<1564, 1564>>, <<1600, 1600>>, <<1611, 1631>>, <<1648, 1648>>,
      <<1750, 1757>>, <<1759, 1768>>, <<1770, 1773>>, <<1807, 1807>>, <<1809, 1809>>, <<1840, 1866>>,
      <<1958, 1968>>, <<2027, 2037>>, <<2042, 2042>>, <<2045, 2045>>, <<2070, 2093>>, <<2137, 2139>>,
      <<2184, 2184>>, <<2192, 2193>>, <<2200, 2207>>, <<2249, 2306>>, <<2362, 2362>>, <<2364, 2364>>,
      <<2369, 2376>>, <<2381, 2381>>, <<2385, 2391>>, <<2402, 2403>>, <<2417, 2417>>, <<2433, 2433>>,
      <<2492, 2492>>, <<2497, 2500>>, <<2509, 2509>>, <<2530, 2531>>, <<2558, 2558>>, <<2561, 2562>>,
      <<2620, 2620>>, <<2625, 2626>>, <<2631, 2632>>, <<2635, 2637>>, <<2641, 2641>>, <<2672, 2673>>,
      <<2677, 2677>>, <<2689, 2690>>, <<2748, 2748>>, <<2753, 2757>>, <<2759, 2760>>, <<2765, 2765>>,
      <<2786, 2787>>, <<2810, 2815>>, <<2817, 2817>>, <<2876, 2876>>, <<2879, 2879>>, <<2881, 2884>>,
      <<2893, 2893>>, <<2901, 2902>>, <<2914, 2915>>, <<2946, 2946>>, <<3008, 3008>>, <<3021, 3021>>,
      <<3072, 3072>>, <<3076, 3076>>, <<3132, 3132>>, <<3134, 3136>>, <<3142, 3144>>, <<3146, 3149>>,
      <<3157, 3158>>, <<3170, 3171>>, <<3201, 3201>>, <<3260, 3260>>, <<3263, 3263>>, <<3270, 3270>>,
      <<3276, 3277>>, <<3298, 3299>>, <<3328, 3329>>, <<3387, 3388>>, <<3393, 3396>>, <<3405, 3405>>,
      <<3426, 3427>>, <<3457, 3457>>, <<3530, 3530>>, <<3538, 3540>>, <<3542, 3542>>, <<3633, 3633>>,
      <<3636, 3642>>, <<3654, 3662>>, <<3761, 3761>>, <<3764, 3772>>, <<3782, 3782>>, <<3784, 3789>>,
      <<3864, 3865>>, <<3893, 3893>>, <<3895, 3895>>, <<3897, 3897>>, <<3953, 3966>>, <<3968, 3972>>,
      <<3974, 3975>>, <<3981, 3991>>, <<3993, 4028>>, <<4038, 4038>>, <<4141, 4144>>, <<4146, 4151>>,
      <<4153, 4154>>, <<4157, 4158>>, <<4184, 4185>>, <<4190, 4192>>, <<4209, 4212>>, <<4226, 4226>>,
      <<4229, 4230>>, <<4237, 4237>>, <<4253, 4253>>, <<4348, 4348>>, <<4957, 4959>>, <<5906, 5908>>,
      <<5938, 5939>>, <<5970, 5971>>, <<6002, 6003>>, <<6068, 6069>>, <<6071, 6077>>, <<6086, 6086>>,
      <<6089, 6099>>, <<6103, 6103>>, <<6109, 6109>>, <<6155, 6159>>, <<6211, 6211>>, <<6277, 6278>>,
      <<6313, 6313>>, <<6432, 6434>>, <<6439, 6440>>, <<6450, 6450>>, <<6457, 6459>>, <<6679, 6680>>,
      <<6683, 6683>>, <<6742, 6742>>, <<6744, 6750>>, <<6752, 6752>>, <<6754, 6754>>, <<6757, 6764>>,
      <<6771, 6780>>, <<6783, 6783>>, <<6823, 6823>>, <<6832, 6862>>, <<6912, 6915>>, <<6964, 6964>>,
      <<6966, 6970>>, <<6972, 6972>>, <<6978, 6978>>, <<7019, 7027>>, <<7040, 7041>>, <<7074, 7077>>,
      <<7080, 7081>>, <<7083, 7085>>, <<7142, 7142>>, <<7144, 7145>>, <<7149, 7149>>, <<7151, 7153>>,
      <<7212, 7219>>, <<7222, 7223>>, <<7288, 7293>>, <<7376, 7378>>, <<7380, 7392>>, <<7394, 7400>>,
      <<7405, 7405>>, <<7412, 7412>>, <<7416, 7417>>, <<7468, 7530>>, <<7544, 7544>>, <<7579, 7679>>,
      <<8125, 8125>>, <<8127, 8129>>, <<8141, 8143>>, <<8157, 8159>>, <<8173, 8175>>, <<8189, 8190>>,
      <<8203, 8207>>, <<8216, 8217>>, <<8228, 8228>>, <<8231, 8231>>, <<8234, 8238>>, <<8288, 8292>>,
      <<8294, 8303>>, <<8305, 8305>>, <<8319, 8319>>, <<8336, 8348>>, <<8400, 8432>>, <<11388, 11389>>,
      <<11503, 11505>>, <<11631, 11631>>, <<11647, 11647>>, <<11744, 11775>>, <<11823, 11823>>, <<12293, 12293>>,
      <<12330, 12333>>, <<12337, 12341>>, <<12347, 12347>>, <<12441, 12446>>, <<12540, 12542>>, <<40981, 40981>>,
      <<42232, 42237>>, <<42508, 42508>>, <<42607, 42610>>, <<42612, 42621>>, <<42623, 42623>>, <<42652, 42655>>,
      <<42736, 42737>>, <<42752, 42785>>, <<42864, 42864>>, <<42888, 42890>>, <<42994, 42996>>, <<43000, 43001>>,
      <<43010, 43010>>, <<43014, 43014>>, <<43019, 43019>>, <<43045, 43046>>, <<43052, 43052>>, <<43204, 43205>>,
      <<43232, 43249>>, <<43263, 43263>>, <<43302, 43309>>, <<43335, 43345>>, <<43392, 43394>>, <<43443, 43443>>,
      <<43446, 43449>>, <<43452, 43453>>, <<43471, 43471>>, <<43493, 43494>>, <<43561, 43566>>, <<43569, 43570>>,
      <<43573, 43574>>, <<43587, 43587>>, <<43596, 43596>>, <<43632, 43632>>, <<43644, 43644>>, <<43696, 43696>>,
      <<43698, 43700>>, <<43703, 43704>>, <<43710, 43711>>, <<43713, 43713>>, <<43741, 43741>>, <<43756, 43757>>,
      <<43763, 43764>>, <<43766, 43766>>, <<43867, 43871>>, <<43881, 43883>>, <<44005, 44005>>, <<44008, 44008>>,
      <<44013, 44013>>, <<64286, 64286>>, <<64434, 64450>>, <<65024, 65039>>, <<65043, 65043>>, <<65056, 65071>>,
      <<65106, 65106>>, <<65109, 65109>>, <<65279, 65279>>, <<65287, 65287>>, <<65294, 65294>>, <<65306, 65306>>,
      <<65342, 65342>>, <<65344, 65344>>, <<65392, 65392>>, <<65438, 65439>>, <<65507, 65507>>, <<65529, 65531>>,
      <<66045, 66045>>, <<66272, 66272>>, <<66422, 66426>>, <<67456, 67461>>, <<67463, 67504>>, <<67506, 67514>>,
      <<68097, 68099>>, <<68101, 68102>>, <<68108, 68111>>, <<68152, 68154>>, <<68159, 68159>>, <<68325, 68326>>,
      <<68900, 68903>>, <<69291, 69292>>, <<69446, 69456>>, <<69506, 69509>>, <<69633, 69633>>, <<69688, 69702>>,
      <<69744, 69744>>, <<69747, 69748>>, <<69759, 69761>>, <<69811, 69814>>, <<69817, 69818>>, <<69821, 69821>>,
      <<69826, 69826>>, <<69837, 69837>>, <<69888, 69890>>, <<69927, 69931>>, <<69933, 69940>>, <<70003, 70003>>,
      <<70016, 70017>>, <<70070, 70078>>, <<70089, 70092>>, <<70095, 70095>>, <<70191, 70193>>, <<70196, 70196>>,
      <<70198, 70199>>, <<70206, 70206>>, <<70367, 70367>>, <<70371, 70378>>, <<70400, 70401>>, <<70459, 70460>>,
      <<70464, 70464>>, <<70502, 70508>>, <<70512, 70516>>, <<70712, 70719>>, <<70722, 70724>>, <<70726, 70726>>,
      <<70750, 70750>>, <<70835, 70840>>, <<70842, 70842>>, <<70847, 70848>>, <<70850, 70851>>, <<71090, 71093>>,
      <<71100, 71101>>, <<71103, 71104>>, <<71132, 71133>>, <<71219, 71226>>, <<71229, 71229>>, <<71231, 71232>>,
      <<71339, 71339>>, <<71341, 71341>>, <<71344, 71349>>, <<71351, 71351>>, <<71453, 71455>>, <<71458, 71461>>,
      <<71463, 71467>>, <<71727, 71735>>, <<71737, 71738>>, <<71995, 71996>>, <<71998, 71998>>, <<72003, 72003>>,
      <<72148, 72151>>, <<72154, 72155>>, <<72160, 72160>>, <<72193, 72202>>, <<72243, 72248>>, <<72251, 72254>>,
      <<72263, 72263>>, <<72273, 72278>>, <<72281, 72283>>, <<72330, 72342>>, <<72344, 72345>>, <<72752, 72758>>,
      <<72760, 72765>>, <<72767, 72767>>, <<72850, 72871>>, <<72874, 72880>>, <<72882, 72883>>, <<72885, 72886>>,
      <<73009, 73014>>, <<73018, 73018>>, <<73020, 73021>>, <<73023, 73029>>, <<73031, 73031>>, <<73104, 73105>>,
      <<73109, 73109>>, <<73111, 73111>>, <<73459, 73460>>, <<78896, 78904>>, <<92912, 92916>>, <<92976, 92982>>,
      <<92992, 92995>>, <<94031, 94031>>, <<94095, 94111>>, <<94176, 94177>>, <<94179, 94180>>, <<110576, 110579>>,
      <<110581, 110587>>, <<110589, 110590>>, <<113821, 113822>>, <<113824, 113827>>, <<118528, 118573>>, <<118576, 118598>>,
      <<119143, 119145>>, <<119155, 119170>>, <<119173, 119179>>, <<119210, 119213>>, <<119362, 119364>>, <<121344, 121398>>,
      <<121403, 121452>>, <<121461, 121461>>, <<121476, 121476>>, <<121499, 121503>>, <<121505, 121519>>, <<122880, 122886>>,
      <<122888, 122904>>, <<122907, 122913>>, <<122915, 122916>>, <<122918, 122922>>, <<123184, 123197>>, <<123566, 123566>>,
      <<123628, 123631>>, <<125136, 125142>>, <<125252, 125259>>, <<127995, 127999>>, <<917505, 917505>>, <<917536, 917631>>,
      <<917760, 917999>>>>

\* The index in ranges[lo..hi] of the range that holds c, 0 when none does.
\* Each table is in ascending order and its ranges do not overlap.
RECURSIVE find_range(_, _, _, _)
find_range(c, ranges, lo, hi) ==
    IF lo > hi THEN 0
    ELSE LET mid == (lo + hi) \div 2
         IN  IF c < ranges[mid][1] THEN find_range(c, ranges, lo, mid - 1)
             ELSE IF c > ranges[mid][2] THEN find_range(c, ranges, mid + 1, hi)
             ELSE mid

InRanges(c, ranges) == find_range(c, ranges, 1, Len(ranges)) # 0

is_cased(c) == InRanges(c, CasedRanges)

is_case_ignorable(c) == InRanges(c, CaseIgnorableRanges)

\* The lower case of an ASCII code point.
ascii_lower(c) == IF c \in 65..90 THEN c + 32 ELSE c

\* The lower case of one code point by itself: a list of code points.  U+0130
\* is the one code point whose lower case has two (i, combining dot above).
to_lower_full(c) ==
    IF c < 128 THEN <<ascii_lower(c)>>
    ELSE IF c = 304 THEN <<105, 775>>
    ELSE LET k == find_range(c, LowerRules, 1, Len(LowerRules))
         IN  IF k # 0 /\ (c - LowerRules[k][1]) % LowerRules[k][3] = 0
             THEN <<c + LowerRules[k][4]>>
             ELSE <<c>>

\* The lower case of the capital sigma (U+03A3) at s[i]: the final sigma
\* (U+03C2) when a cased code point precedes it and none follows it, code
\* points that are Case_Ignorable being skipped on both sides; else U+03C3.
handle_capital_sigma(s, i) ==
    LET before == {j \in 1..(i - 1) : ~is_case_ignorable(s[j])}
        after == {j \in (i + 1)..Len(s) : ~is_case_ignorable(s[j])}
        final_sigma ==
            /\ before # {}
            /\ is_cased(s[Max(before)])
            /\ after = {} \/ ~is_cased(s[Min(after)])
    IN  IF final_sigma THEN 962 ELSE 963

\* What str.lower() puts for the code point at s[i].
lower_char(s, i) ==
    IF s[i] = 931 THEN <<handle_capital_sigma(s, i)>> ELSE to_lower_full(s[i])

RECURSIVE lower_from(_, _)
lower_from(s, i) ==
    IF i > Len(s) THEN <<>> ELSE lower_char(s, i) \o lower_from(s, i + 1)

\* s.lower(): a str of ASCII code points only is lowered code point by code
\* point; any other str goes through the Unicode database.
lower(s) ==
    IF \A i \in 1..Len(s) : s[i] < 128
    THEN [i \in 1..Len(s) |-> ascii_lower(s[i])]
    ELSE lower_from(s, 1)

\* `sub in s` for two str: s has sub as a contiguous substring.
str_contains(sub, s) ==
    \E i \in 0..(Len(s) - Len(sub)) : SubSeq(s, i + 1, i + Len(sub)) = sub

\* dict: the empty dict and d[k] = v.
EmptyDict == [k \in {} |-> NoneRef]

dict_set(d, k, v) == [x \in (DOMAIN d) \cup {k} |-> IF x = k THEN v ELSE d[x]]

(***************************************************************************)
(* The entity classes of models.py.                                        *)
(***************************************************************************)
FBPerson(name) ==
    [class |-> "FBPerson", name |-> name, chats |-> EmptyDict, group_chats |-> EmptyDict]

FBChat(title, participants) ==
    [class |-> "FBChat", title |-> title, participants |-> participants, messages |-> <<>>]

\* datetime.datetime.fromtimestamp(timestamp / 1000.0): the instant, as whole
\* seconds and microseconds.
fromtimestamp_ms(timestamp) ==
    [seconds |-> timestamp \div 1000, microseconds |-> (timestamp % 1000) * 1000]

FBPhoto(uri, timestamp) ==
    [class |-> "FBPhoto", uri |-> uri, date |-> fromtimestamp_ms(timestamp)]

FBVideo(uri, timestamp, thumbnail) ==
    [class |-> "FBVideo", uri |-> uri, date |-> fromtimestamp_ms(timestamp),
     thumbnail |-> thumbnail]

FBShare(link, text) == [class |-> "FBShare", link |-> link, text |-> text]

FBReaction(person, reaction) ==
    [class |-> "FBReaction", actor |-> person, reaction |-> reaction]

FBMessage(sender, timestamp, type_of_msg, content, photos, videos, share, reactions) ==
    [class |-> "FBMessage",
     sender |-> sender,
     date |-> fromtimestamp_ms(timestamp),
     type |-> type_of_msg,
     content |-> content,
     photos |-> photos,
     videos |-> videos,
     share |-> share,
     reactions |-> IF reactions = None THEN <<>> ELSE reactions[1]]

fb_message_type_switch(argument) ==
    CASE argument = "Generic" -> "FBTypeOfMsg.Generic"
      [] argument = "Share" -> "FBTypeOfMsg.Share"
      [] OTHER -> "FBTypeOfMsg.Unknown"

(***************************************************************************)
(* FBChat and FBPerson methods.  `self` is the registry: a record of the   *)
(* fields persons, chats, group_chats of FBMetadata and of the heap of     *)
(* chat objects; a method that mutates an object returns the registry      *)
(* after the mutation.                                                     *)
(***************************************************************************)
participant_names(self, chat_ref) ==
    [i \in 1..Len(self.heap[chat_ref].participants) |->
        self.persons[self.heap[chat_ref].participants[i]].name]

find_participant(self, chat_ref, name) ==
    LET participants == self.heap[chat_ref].participants
        hits == {i \in 1..Len(participants) : self.persons[participants[i]].name = name}
    IN  IF hits = {} THEN NoneRef ELSE participants[Min(hits)]

\* add_messages without the check of line 215.
RECURSIVE add_messages_unchecked(_, _, _)
add_messages_unchecked(self, chat_ref, messages) ==
    IF messages = <<>> THEN self
    ELSE add_messages_unchecked(
             [self EXCEPT !.heap[chat_ref].messages = Append(@, Head(messages))],
             chat_ref, Tail(messages))

RECURSIVE add_messages(_, _, _)
add_messages(self, chat_ref, messages) ==
    IF messages = <<>> THEN self
    ELSE LET msg == Head(messages)
             appended ==
                 IF find_participant(self, chat_ref, msg.sender) # NoneRef
                 THEN [self EXCEPT !.heap[chat_ref].messages = Append(@, msg)]
                 ELSE self
         IN  add_messages(appended, chat_ref, Tail(messages))

add_chat(self, person_ref, chat_ref, group_chat) ==
    LET title == self.heap[chat_ref].title
    IN  IF find_participant(self, chat_ref, self.persons[person_ref].name) # NoneRef
        THEN IF group_chat
             THEN [self EXCEPT !.persons[person_ref].group_chats = dict_set(@, title, chat_ref)]
             ELSE [self EXCEPT !.persons[person_ref].chats = dict_set(@, title, chat_ref)]
        ELSE self

(***************************************************************************)
(* FBMetadata methods.                                                     *)
(***************************************************************************)
find_person(self, name) ==
    LET hits == {i \in 1..Len(self.persons) : self.persons[i].name = name}
    IN  IF hits = {} THEN NoneRef ELSE Min(hits)

\* find_chat without line 67: the given list is compared as it is.
find_chat_unsorted(self, title, participants, search_groups) ==
    LET chat_list == IF search_groups THEN self.group_chats ELSE self.chats
        hits == {i \in 1..Len(chat_list) :
                    /\ self.heap[chat_list[i]].title = title
                    /\ \/ participants = None
                       \/ sorted(participant_names(self, chat_list[i])) = participants[1]}
    IN  IF hits = {} THEN NoneRef ELSE chat_list[Min(hits)]

\* `participants` is None or Some(list of names).  The code sorts the caller's
\* list in place (line 67); load_chat below accounts for that.
find_chat(self, title, participants, search_groups) ==
    LET chat_list == IF search_groups THEN self.group_chats ELSE self.chats
        wanted == IF participants # None THEN Some(sorted(participants[1])) ELSE None
        hits == {i \in 1..Len(chat_list) :
                    /\ self.heap[chat_list[i]].title = title
                    /\ \/ participants = None
                       \/ sorted(participant_names(self, chat_list[i])) = wanted[1]}
    IN  IF hits = {} THEN NoneRef ELSE chat_list[Min(hits)]

KeyError(key) == Some([exception |-> "KeyError", key |-> key])

\* d[k] for each k of keys, in order: the KeyError of the first key d lacks,
\* None when d has them all.
RECURSIVE subscript_fault(_, _)
subscript_fault(d, keys) ==
    IF keys = <<>> THEN None
    ELSE IF Head(keys) \notin DOMAIN d THEN KeyError(Head(keys))
    ELSE subscript_fault(d, Tail(keys))

\* A loop that subscripts the elements of a list one after the other, given
\* what each element would raise: the exception of the first element that
\* raises, None when no element raises.
first_fault(faults) ==
    LET faulty == {i \in 1..Len(faults) : faults[i] # None}
    IN  IF faulty = {} THEN None ELSE faults[Min(faulty)]

\* load_people without the check of line 81.
RECURSIVE load_people_no_dedup(_, _)
load_people_no_dedup(self, participants_data) ==
    IF participants_data = <<>> THEN [self |-> self, raised |-> None]
    ELSE LET person == Head(participants_data)
         IN  IF "name" \notin DOMAIN person
             THEN [self |-> self, raised |-> KeyError("name")]
             ELSE load_people_no_dedup(
                      [self EXCEPT !.persons = Append(@, FBPerson(person.name))],
                      Tail(participants_data))

\* __load_people: the registry after the call and the exception it raised.  A
\* participant without name raises at line 81, after the earlier ones are in.
RECURSIVE load_people(_, _)
load_people(self, participants_data) ==
    IF participants_data = <<>> THEN [self |-> self, raised |-> None]
    ELSE LET person == Head(participants_data)
         IN  IF "name" \notin DOMAIN person
             THEN [self |-> self, raised |-> KeyError("name")]
             ELSE LET registered ==
                          IF find_person(self, person.name) = NoneRef
                          THEN [self EXCEPT !.persons = Append(@, FBPerson(person.name))]
                          ELSE self
                  IN  load_people(registered, Tail(participants_data))

\* The first of the subscripted keys of lines 123-125 that the record lacks, in
\* the order Python evaluates the arguments; None when it has them all.
missing_key(message_data) ==
    subscript_fault(message_data, <<"sender_name", "timestamp_ms", "type">>)

\* possible_data with an empty placeholder for a key the record lacks.
possible_data_placeholder(message_data) ==
    [search_term \in {"content", "photos", "videos", "share", "reactions"} |->
        IF search_term \in DOMAIN message_data
        THEN message_data[search_term] ELSE Some(<<>>)]

\* Lines 90-95: possible_data[search_term] is message_data[search_term] when the
\* record has the key (None when that value is null, Some(v) otherwise) and
\* None when it lacks the key.
possible_data_of(message_data) ==
    [search_term \in {"content", "photos", "videos", "share", "reactions"} |->
        IF search_term \in DOMAIN message_data
        THEN message_data[search_term] ELSE None]

\* Line 100: photo['uri'], photo['creation_timestamp'].
photo_fault(photo) == subscript_fault(photo, <<"uri", "creation_timestamp">>)

\* Line 106: video['uri'], video['creation_timestamp'], video['thumbnail']['uri'].
video_fault(video) ==
    IF subscript_fault(video, <<"uri", "creation_timestamp", "thumbnail">>) # None
    THEN subscript_fault(video, <<"uri", "creation_timestamp", "thumbnail">>)
    ELSE subscript_fault(video.thumbnail, <<"uri">>)

\* Line 112: react['actor'], react['reaction'].
reaction_fault(react) == subscript_fault(react, <<"actor", "reaction">>)

\* Lines 97-101, when no photo raises.
convert_photos(photos) ==
    IF photos # None
    THEN Some([i \in 1..Len(photos[1]) |->
                 FBPhoto(photos[1][i].uri, photos[1][i].creation_timestamp)])
    ELSE None

\* Lines 103-107, when no video raises.
convert_videos(videos) ==
    IF videos # None
    THEN Some([i \in 1..Len(videos[1]) |->
                 FBVideo(videos[1][i].uri, videos[1][i].creation_timestamp,
                         videos[1][i].thumbnail.uri)])
    ELSE None

\* Lines 109-112, when no reaction raises: the list of FBReaction built in the
\* local `reactions`.
convert_reactions(self, reactions) ==
    IF reactions # None
    THEN Some([i \in 1..Len(reactions[1]) |->
                 FBReaction(find_person(self, reactions[1][i].actor),
                            reactions[1][i].reaction)])
    ELSE None

\* Lines 114-121.
convert_share(share) ==
    IF share # None
    THEN Some(FBShare(IF "link" \in DOMAIN share[1] THEN Some(share[1].link) ELSE None,
                      IF "share_text" \in DOMAIN share[1]
                      THEN Some(share[1].share_text) ELSE None))
    ELSE None

\* The exception lines 97-125 raise, None when they raise none: the photos are
\* converted first, then the videos, then the reactions, and the record's own
\* keys are subscripted last, at lines 123-125.
message_fault(possible_data, message_data) ==
    LET photos ==
            IF possible_data.photos # None
            THEN first_fault([i \in 1..Len(possible_data.photos[1]) |->
                                 photo_fault(possible_data.photos[1][i])])
            ELSE None
        videos ==
            IF possible_data.videos # None
            THEN first_fault([i \in 1..Len(possible_data.videos[1]) |->
                                 video_fault(possible_data.videos[1][i])])
            ELSE None
        reactions ==
            IF possible_data.reactions # None
            THEN first_fault([i \in 1..Len(possible_data.reactions[1]) |->
                                 reaction_fault(possible_data.reactions[1][i])])
            ELSE None
    IN  IF photos # None THEN photos
        ELSE IF videos # None THEN videos
        ELSE IF reactions # None THEN reactions
        ELSE missing_key(message_data)

\* Lines 123-130: the FBMessage built when nothing raised.  The last argument
\* is possible_data['reactions'], the raw array: the local list `reactions` of
\* lines 109-112 (convert_reactions) is not used.
convert_message(self, possible_data, message_data) ==
    FBMessage(message_data.sender_name,
              message_data.timestamp_ms,
              fb_message_type_switch(message_data.type),
              possible_data.content,
              convert_photos(possible_data.photos),
              convert_videos(possible_data.videos),
              convert_share(possible_data.share),
              possible_data.reactions)

\* __load_message: the registry after the call and the exception it raised.
load_message(self, message_data, chat_ref) ==
    LET possible_data == possible_data_of(message_data)
        raised == message_fault(possible_data, message_data)
    IN  IF raised # None
        THEN [self |-> self, raised |-> raised]
        ELSE [self |-> add_messages(self, chat_ref,
                                    <<convert_message(self, possible_data, message_data)>>),
              raised |-> None]

\* The loop of lines 152-153 going on with the next record after an exception.
RECURSIVE load_messages_continue(_, _, _)
load_messages_continue(self, messages, chat_ref) ==
    IF messages = <<>> THEN [self |-> self, raised |-> None]
    ELSE LET loaded == load_message(self, Head(messages), chat_ref)
             rest == load_messages_continue(loaded.self, Tail(messages), chat_ref)
         IN  IF loaded.raised # None THEN [self |-> rest.self, raised |-> loaded.raised]
             ELSE rest

\* The loop of lines 152-153: an exception ends it.
RECURSIVE load_messages(_, _, _)
load_messages(self, messages, chat_ref) ==
    IF messages = <<>> THEN [self |-> self, raised |-> None]
    ELSE LET loaded == load_message(self, Head(messages), chat_ref)
         IN  IF loaded.raised # None THEN loaded
             ELSE load_messages(loaded.self, Tail(messages), chat_ref)

\* The loop of lines 155-156.
RECURSIVE add_chats(_, _, _, _)
add_chats(self, participants, chat_ref, is_group_chat) ==
    IF participants = <<>> THEN self
    ELSE add_chats(add_chat(self, find_person(self, Head(participants)), chat_ref,
                            is_group_chat),
                   Tail(participants), chat_ref, is_group_chat)

\* The earlier policy: more than two participants make a group chat.
is_group_chat_by_count(json_data) == Len(json_data.participants) > 2

\* Line 141.
is_group_chat_of(json_data) == json_data.thread_type # "Regular"

\* Lines 145-150: the chat found, or a new chat appended to its list.
\* `participants` is the list as find_chat left it.
resolve_chat(self, title, participants, is_group_chat, found) ==
    IF found # NoneRef THEN [self |-> self, chat |-> found]
    ELSE LET chat == FBChat(title, [i \in 1..Len(participants) |->
                                       find_person(self, participants[i])])
             chat_ref == Len(self.heap) + 1
             allocated == [self EXCEPT !.heap = Append(@, chat)]
         IN  [self |-> IF is_group_chat
                       THEN [allocated EXCEPT !.group_chats = Append(@, chat_ref)]
                       ELSE [allocated EXCEPT !.chats = Append(@, chat_ref)],
              chat |-> chat_ref]

\* __load_chat: the registry after the call, the exception raised and the chat
\* the document resolved to (NoneRef when the call raised before resolving it).
\* Line 139 subscripts the participants, line 141 thread_type, line 143 title;
\* line 152 subscripts messages, after the chat is found or constructed.
load_chat(self, json_data) ==
    IF "participants" \notin DOMAIN json_data
    THEN [self |-> self, raised |-> KeyError("participants"), chat |-> NoneRef]
    ELSE IF first_fault([i \in 1..Len(json_data.participants) |->
                            subscript_fault(json_data.participants[i], <<"name">>)]) # None
    THEN [self |-> self, raised |-> KeyError("name"), chat |-> NoneRef]
    ELSE IF subscript_fault(json_data, <<"thread_type", "title">>) # None
    THEN [self |-> self, raised |-> subscript_fault(json_data, <<"thread_type", "title">>),
          chat |-> NoneRef]
    ELSE LET participants == [i \in 1..Len(json_data.participants) |->
                                 json_data.participants[i].name]
             is_group_chat == is_group_chat_of(json_data)
             found == find_chat(self, json_data.title, Some(participants), is_group_chat)
             \* find_chat has sorted `participants` in place
             sorted_participants == sorted(participants)
             resolved == resolve_chat(self, json_data.title, sorted_participants,
                                      is_group_chat, found)
         IN  IF "messages" \notin DOMAIN json_data
             THEN [self |-> resolved.self, raised |-> KeyError("messages"),
                   chat |-> resolved.chat]
             ELSE LET loaded == load_messages(resolved.self, json_data.messages,
                                              resolved.chat)
                  IN  IF loaded.raised # None
                      THEN [self |-> loaded.self, raised |-> loaded.raised,
                            chat |-> resolved.chat]
                      ELSE [self |-> add_chats(loaded.self, sorted_participants,
                                               resolved.chat, is_group_chat),
                            raised |-> None, chat |-> resolved.chat]

\* Lines 166-167 of from_entry, on the deserialized document.
load_json(self, json_data) ==
    IF "participants" \notin DOMAIN json_data
    THEN [self |-> self, raised |-> KeyError("participants"), chat |-> NoneRef]
    ELSE LET people == load_people(self, json_data.participants)
         IN  IF people.raised # None
             THEN [self |-> people.self, raised |-> people.raised, chat |-> NoneRef]
             ELSE load_chat(people.self, json_data)

\* The registry of the current state.
Self == [persons |-> persons, chats |-> chats, group_chats |-> group_chats, heap |-> heap]

\* FBMetadata.from_entry(entry): entry is the path of one export file.
from_entry(entry) ==
    /\ ncalls < MaxCalls
    /\ LET result == load_json(Self, files[entry])
       IN  /\ persons' = result.self.persons
           /\ chats' = result.self.chats
           /\ group_chats' = result.self.group_chats
           /\ heap' = result.self.heap
           /\ last' = [op |-> "from_entry", entry |-> entry, again |-> entry \in entered,
                       raised |-> result.raised, chat |-> result.chat]
    /\ entered' = entered \cup {entry}
    /\ ncalls' = ncalls + 1
    /\ UNCHANGED files

\* FBChat.add_messages(messages) called on the chat chat_ref.
call_add_messages(chat_ref, messages) ==
    /\ ncalls < MaxCalls
    /\ heap' = add_messages(Self, chat_ref, messages).heap
    /\ last' = [op |-> "add_messages", chat |-> chat_ref, messages |-> messages]
    /\ ncalls' = ncalls + 1
    /\ UNCHANGED <<files, persons, chats, group_chats, entered>>

\* FBPerson.add_chat(chat, group_chat) called on the person person_ref.
call_add_chat(person_ref, chat_ref, group_chat) ==
    /\ ncalls < MaxCalls
    /\ persons' = add_chat(Self, person_ref, chat_ref, group_chat).persons
    /\ last' = [op |-> "add_chat", person |-> person_ref, chat |-> chat_ref,
                group_chat |-> group_chat]
    /\ ncalls' = ncalls + 1
    /\ UNCHANGED <<files, chats, group_chats, heap, entered>>

\* A query on the registry: find_chat changes no field of it.
call_find_chat(title, participants, search_groups) ==
    /\ last' = [op |-> "find_chat", title |-> title, participants |-> participants,
                search_groups |-> search_groups,
                result |-> find_chat(Self, title, participants, search_groups)]
    /\ UNCHANGED <<files, persons, chats, group_chats, heap, entered, ncalls>>

(***************************************************************************)
(* The query functions of main.py.                                         *)
(***************************************************************************)
load_all_json_files(entries) == [i \in 1..Len(entries) |-> files[entries[i]]]

\* The loop of lines 15-19 storing 1 where line 17 adds 1.
RECURSIVE count_reacts_no_increment(_, _)
count_reacts_no_increment(final_res, reactions) ==
    IF reactions = <<>> THEN final_res
    ELSE count_reacts_no_increment(dict_set(final_res, Head(reactions).actor, 1),
                                   Tail(reactions))

\* The loop of lines 15-19 over one reactions array.
RECURSIVE count_reacts_in_reactions(_, _)
count_reacts_in_reactions(final_res, reactions) ==
    IF reactions = <<>> THEN final_res
    ELSE LET r == Head(reactions)
             counted == IF r.actor \in DOMAIN final_res
                        THEN dict_set(final_res, r.actor, final_res[r.actor] + 1)
                        ELSE dict_set(final_res, r.actor, 1)
         IN  count_reacts_in_reactions(counted, Tail(reactions))

\* The loop of lines 13-19 over the messages of one document.  The value of
\* m['reactions'] is iterated: it is m.reactions[1], which a null does not have
\* (Python raises TypeError on it).
RECURSIVE count_reacts_in_messages(_, _)
count_reacts_in_messages(final_res, messages) ==
    IF messages = <<>> THEN final_res
    ELSE LET m == Head(messages)
             counted == IF "reactions" \in DOMAIN m
                        THEN count_reacts_in_reactions(final_res, m.reactions[1])
                        ELSE final_res
         IN  count_reacts_in_messages(counted, Tail(messages))

\* The loop of lines 12-19 over the documents.
RECURSIVE count_reacts_in_docs(_, _)
count_reacts_in_docs(final_res, json_data_inp) ==
    IF json_data_inp = <<>> THEN final_res
    ELSE count_reacts_in_docs(count_reacts_in_messages(final_res, Head(json_data_inp).messages),
                              Tail(json_data_inp))

count_reacts(json_data_inp) == count_reacts_in_docs([k \in {} |-> 0], json_data_inp)

\* Lines 40-45 counting the occurrences of the keyword in the message.
count_occurrences_in_message(m, keyword, sender, use_lowercase) ==
    IF "content" \in DOMAIN m /\ (sender = None \/ str_contains(sender[1], m.sender_name))
    THEN LET cont == IF use_lowercase THEN lower(m.content[1]) ELSE m.content[1]
         IN  Cardinality({i \in 0..(Len(cont) - Len(keyword)) :
                             SubSeq(cont, i + 1, i + Len(keyword)) = keyword})
    ELSE 0

\* Lines 40-45: what one message adds to result.  `keyword` is already
\* lower-cased when use_lowercase is set; `sender` is None or Some(str).  The
\* str m['content'] is m.content[1], which a null does not have (Python raises
\* on it).
count_occurrence_in_message(m, keyword, sender, use_lowercase) ==
    IF "content" \in DOMAIN m /\ (sender = None \/ str_contains(sender[1], m.sender_name))
    THEN LET cont == IF use_lowercase THEN lower(m.content[1]) ELSE m.content[1]
         IN  IF str_contains(keyword, cont) THEN 1 ELSE 0
    ELSE 0

\* The loop of lines 39-45 over the messages of one document.
RECURSIVE count_occurrence_in_messages(_, _, _, _, _)
count_occurrence_in_messages(result, messages, keyword, sender, use_lowercase) ==
    IF messages = <<>> THEN result
    ELSE count_occurrence_in_messages(
             result + count_occurrence_in_message(Head(messages), keyword, sender,
                                                  use_lowercase),
             Tail(messages), keyword, sender, use_lowercase)

\* The loop of lines 38-45 over the documents.
RECURSIVE count_occurrence_in_docs(_, _, _, _, _)
count_occurrence_in_docs(result, json_data_inp, keyword, sender, use_lowercase) ==
    IF json_data_inp = <<>> THEN result
    ELSE count_occurrence_in_docs(
             count_occurrence_in_messages(result, Head(json_data_inp).messages, keyword,
                                          sender, use_lowercase),
             Tail(json_data_inp), keyword, sender, use_lowercase)

count_occurrence(json_data_inp, keyword, sender, use_lowercase) ==
    count_occurrence_in_docs(0, json_data_inp,
                             IF use_lowercase THEN lower(keyword) ELSE keyword,
                             sender, use_lowercase)

call_count_reacts(entries) ==
    /\ last' = [op |-> "count_reacts", entries |-> entries,
                result |-> count_reacts(load_all_json_files(entries))]
    /\ UNCHANGED <<files, persons, chats, group_chats, heap, entered, ncalls>>

call_count_occurrence(entries, keyword, sender, use_lowercase) ==
    /\ last' = [op |-> "count_occurrence", entries |-> entries, keyword |-> keyword,
                sender |-> sender, use_lowercase |-> use_lowercase,
                result |-> count_occurrence(load_all_json_files(entries), keyword, sender,
                                            use_lowercase)]
    /\ UNCHANGED <<files, persons, chats, group_chats, heap, entered, ncalls>>

(***************************************************************************)
(* The export files.  MainPath holds a conversation of A and B with up to  *)
(* MaxMessages messages; OtherPath holds a second conversation whose       *)
(* title, participants and thread_type vary, so that it resolves to the    *)
(* same chat as the first, to a chat of the same title, or to another one. *)
(***************************************************************************)
\* The str of the documents and of the queries, by their code points.
A == <<65>>                  \* "A"
B == <<66>>                  \* "B"
AB == <<65, 66>>             \* "AB"
Str_a == <<97>>              \* "a"
Str_aa == <<97, 97>>         \* "aa"
Str_ab == <<97, 98>>         \* "ab"
Str_Ab == <<65, 98>>         \* "Ab"
Str_bAb == <<98, 65, 98>>    \* "bAb"
Str_AbSigma == <<65, 98, 931>>   \* "Ab" and the capital sigma: lower() ends it in the final sigma
Str_Sigma == <<931>>         \* the capital sigma: lower() makes it the small sigma

MainPath == "inbox/a/message_1.json"
OtherPath == "inbox/b/message_1.json"
Paths == {MainPath, OtherPath}

Timestamp == 1500

RawMessage(sender_name, type) ==
    [sender_name |-> sender_name, timestamp_ms |-> Timestamp, type |-> type]

Participants(names) == [i \in 1..Len(names) |-> [name |-> names[i]]]

Document(names, title, thread_type, messages) ==
    [participants |-> Participants(names), title |-> title,
     thread_type |-> thread_type, messages |-> messages]

\* Records that lack one of the keys __load_message subscripts.
MalformedMessages ==
    {[timestamp_ms |-> Timestamp, type |-> "Generic"],
     [sender_name |-> A, type |-> "Generic"],
     [sender_name |-> A, timestamp_ms |-> Timestamp]}

\* A message of a participant of the main conversation and one of somebody else.
PlainMessages == {RawMessage(A, "Generic"), RawMessage(AB, "Generic")}

OtherDocs ==
    LET with_type == {Document(names, title, thread_type, <<RawMessage(AB, "Share")>>) :
                         names \in {<<B, A>>, <<A, AB>>}, title \in {"t1", "t2"},
                         thread_type \in {"Regular", "RegularGroup"}}
        \* a document without thread_type
        without_type == {[participants |-> Participants(<<A, AB>>), title |-> "t1",
                          messages |-> <<RawMessage(AB, "Share")>>]}
    IN  with_type \cup without_type

MainDocs(RawMessages, max) ==
    {Document(<<A, B>>, "t1", "Regular", messages) : messages \in SeqsUpTo(RawMessages, max)}

Files(Main, Other) ==
    {[p \in Paths |-> IF p = MainPath THEN main ELSE other] : main \in Main, other \in Other}

EmptyRegistry ==
    /\ persons = <<>>
    /\ chats = <<>>
    /\ group_chats = <<>>
    /\ heap = <<>>
    /\ last = [op |-> "FBMetadata"]
    /\ entered = {}
    /\ ncalls = 0

Init ==
    /\ files \in Files(MainDocs(PlainMessages \cup MalformedMessages, MaxMessages), OtherDocs)
    /\ EmptyRegistry

Next == \E entry \in Paths : from_entry(entry)

Spec == Init /\ [][Next]_vars

(***************************************************************************)
(* Documents whose messages carry the optional fields.                     *)
(***************************************************************************)
Photo == [uri |-> "photos/1.jpg", creation_timestamp |-> Timestamp]
Video == [uri |-> "videos/1.mp4", creation_timestamp |-> Timestamp,
          thumbnail |-> [uri |-> "videos/1.jpg"]]

Reaction(actor, reaction) == [actor |-> actor, reaction |-> reaction]

\* message_data with one more key.
With(message_data, key, value) ==
    [k \in (DOMAIN message_data) \cup {key} |-> IF k = key THEN value ELSE message_data[k]]

RichMessages ==
    LET base == RawMessage(A, "Generic")
    IN  {RawMessage(A, "Share"), RawMessage(B, "Bogus"),
         With(base, "content", Some(Str_ab)),
         With(base, "photos", Some(<<>>)),
         With(base, "photos", Some(<<Photo>>)),
         With(base, "videos", Some(<<>>)),
         With(base, "videos", Some(<<Video>>)),
         With(base, "share", Some(EmptyDict)),
         With(base, "share", Some([link |-> "http://l"])),
         With(base, "share", Some([share_text |-> "text"])),
         With(base, "share", Some([link |-> "http://l", share_text |-> "text"])),
         With(base, "reactions", Some(<<>>)),
         With(base, "reactions", Some(<<Reaction(A, "like")>>)),
         With(base, "reactions", Some(<<Reaction(B, "wow"), Reaction(AB, "like")>>)),
         With(With(With(With(With(RawMessage(B, "Share"),
             "content", Some(<<>>)), "photos", Some(<<Photo, Photo>>)),
             "videos", Some(<<Video>>)), "share", Some([link |-> "http://l"])),
             "reactions", Some(<<Reaction(A, "like")>>)),
         \* "photos": null
         With(base, "photos", None),
         \* "content": null, "videos": null, "share": null, "reactions": null
         With(With(With(With(RawMessage(B, "Generic"),
             "content", None), "videos", None), "share", None), "reactions", None),
         \* "content": "ab", "photos": null, "reactions": [a reaction]
         With(With(With(base, "content", Some(Str_ab)), "photos", None),
             "reactions", Some(<<Reaction(B, "wow")>>))}

\* Records with a part that lacks a key its conversion subscripts.
MalformedParts ==
    LET base == RawMessage(A, "Generic")
    IN  {\* a reaction without actor
         With(base, "reactions", Some(<<[reaction |-> "like"]>>)),
         \* a second reaction without reaction
         With(base, "reactions", Some(<<Reaction(A, "like"), [actor |-> B]>>)),
         \* a video whose thumbnail has no uri
         With(base, "videos", Some(<<[uri |-> "videos/1.mp4",
                                      creation_timestamp |-> Timestamp,
                                      thumbnail |-> EmptyDict]>>)),
         \* no sender_name, and a photo without uri
         With([timestamp_ms |-> Timestamp, type |-> "Generic"],
              "photos", Some(<<[creation_timestamp |-> Timestamp]>>))}

RichOtherDocs == {Document(<<A, AB>>, "t2", "RegularGroup", <<RawMessage(AB, "Share")>>)}

InitConv ==
    /\ files \in Files(MainDocs(RichMessages \cup MalformedParts, MaxRichMessages),
                       RichOtherDocs)
    /\ EmptyRegistry

SpecConv == InitConv /\ [][Next]_vars

(***************************************************************************)
(* Loads and direct calls of the methods of a chat and of a person.        *)
(***************************************************************************)
ApiMainDocs ==
    MainDocs(PlainMessages \cup {[timestamp_ms |-> Timestamp, type |-> "Generic"]},
             MaxRichMessages)

ApiOtherDocs ==
    {Document(<<A, AB>>, "t1", "RegularGroup", <<RawMessage(AB, "Share")>>),
     \* a document without messages
     [participants |-> Participants(<<B, AB>>), title |-> "t2", thread_type |-> "Regular"],
     \* a document whose second participant has no name
     [participants |-> <<[name |-> AB], EmptyDict>>, title |-> "t2",
      thread_type |-> "Regular", messages |-> <<>>]}

\* The lists of messages a caller hands to add_messages.
ApiMessages ==
    LET message(sender) ==
            FBMessage(sender, Timestamp, "FBTypeOfMsg.Generic", Some(Str_ab), None, None,
                      None, None)
    IN  {<<message(AB)>>, <<message(A), message(AB), message(B)>>}

InitApi ==
    /\ files \in Files(ApiMainDocs, ApiOtherDocs)
    /\ EmptyRegistry

NextApi ==
    \/ \E entry \in Paths : from_entry(entry)
    \/ \E chat_ref \in 1..Len(heap), messages \in ApiMessages :
          call_add_messages(chat_ref, messages)
    \/ \E person_ref \in 1..Len(persons), chat_ref \in 1..Len(heap), group_chat \in BOOLEAN :
          call_add_chat(person_ref, chat_ref, group_chat)

SpecApi == InitApi /\ [][NextApi]_vars

(***************************************************************************)
(* Lookups of chats between the loads.                                     *)
(***************************************************************************)
FindTitles == {"t1", "t2"}
FindParticipants ==
    {None} \cup {Some(l) : l \in {<<A, B>>, <<B, A>>, <<A, AB>>, <<AB, A>>, <<A>>, <<B, A, AB>>}}

InitFind ==
    /\ files \in Files(MainDocs({RawMessage(A, "Generic")}, MaxRichMessages), OtherDocs)
    /\ EmptyRegistry

NextFind ==
    \/ \E entry \in Paths : from_entry(entry)
    \/ \E title \in FindTitles, participants \in FindParticipants, search_groups \in BOOLEAN :
          call_find_chat(title, participants, search_groups)

SpecFind == InitFind /\ [][NextFind]_vars

(***************************************************************************)
(* The query functions on the raw documents.                               *)
(***************************************************************************)
\* A record of sender_name; `content` and `reactions` are None for a record
\* without the key and Some(v) for a record that holds v under it.
QueryMessage(sender_name, content, reactions) ==
    LET base == RawMessage(sender_name, "Generic")
        with_content == IF content = None THEN base ELSE With(base, "content", content)
    IN  IF reactions = None THEN with_content
        ELSE With(with_content, "reactions", reactions)

QueryMessages ==
    {QueryMessage(A, Some(Str_AbSigma), None),
     QueryMessage(AB, Some(Str_ab), Some(<<Reaction(A, "like")>>)),
     QueryMessage(B, Some(Str_aa), Some(<<Reaction(A, "wow"), Reaction(B, "wow")>>)),
     QueryMessage(A, None, Some(<<Reaction(Str_a, "like"), Reaction(A, "like")>>)),
     QueryMessage(AB, None, Some(<<>>)),
     QueryMessage(B, Some(Str_bAb), None)}

QueryOtherDocs ==
    {Document(<<A, AB>>, "t2", "RegularGroup", messages) :
        messages \in {<<QueryMessage(AB, Some(Str_ab), Some(<<Reaction(A, "like")>>))>>,
                      <<QueryMessage(A, None, Some(<<Reaction(B, "like")>>)),
                        QueryMessage(B, Some(Str_Ab), None)>>}}

QueryEntries ==
    {<<>>, <<MainPath>>, <<MainPath, OtherPath>>, <<OtherPath, MainPath>>, <<MainPath, MainPath>>}

Keywords == {Str_Ab, Str_a, Str_Sigma}
SenderFilters == {None, Some(A), Some(B)}

InitQuery ==
    /\ files \in Files(MainDocs(QueryMessages, MaxRichMessages), QueryOtherDocs)
    /\ EmptyRegistry

NextQuery ==
    \/ \E entries \in QueryEntries : call_count_reacts(entries)
    \/ \E entries \in QueryEntries, keyword \in Keywords, sender \in SenderFilters,
          use_lowercase \in BOOLEAN :
          call_count_occurrence(entries, keyword, sender, use_lowercase)

SpecQuery == InitQuery /\ [][NextQuery]_vars

(***************************************************************************)
(* Properties.  They are stated on the registry and on the raw documents,  *)
(* not through the operators above.                                        *)
(***************************************************************************)
IsLoad == last.op = "from_entry"
LastDoc == files[last.entry]

\* A step of from_entry, and the document it loads.
LoadStep == ncalls' = ncalls + 1 /\ last'.op = "from_entry"
StepDoc == files[last'.entry]

NamesOf(doc) == {doc.participants[i].name : i \in 1..Len(doc.participants)}
PersonNames == {persons[i].name : i \in 1..Len(persons)}
ChatRefs == Range(chats) \cup Range(group_chats)
ChatNames(ref) == {persons[heap[ref].participants[i]].name : i \in 1..Len(heap[ref].participants)}

HasRequired(m) == {"sender_name", "timestamp_ms", "type"} \subseteq DOMAIN m

\* The document names its participants and has a title.
HasHeader(doc) ==
    /\ {"participants", "title"} \subseteq DOMAIN doc
    /\ \A i \in 1..Len(doc.participants) : "name" \in DOMAIN doc.participants[i]

\* The record holds a value other than null under the key.
HoldsValue(m, key) == key \in DOMAIN m /\ m[key] # None

\* The record holds null under the key.
HoldsNull(m, key) == key \in DOMAIN m /\ m[key] = None

\* The array the record holds under the key ([] when it holds none).
RawArray(m, key) == IF HoldsValue(m, key) THEN m[key][1] ELSE <<>>

\* Every photo, video and reaction of the record has the keys of the export format.
WellFormedParts(m) ==
    /\ \A i \in 1..Len(RawArray(m, "photos")) :
          {"uri", "creation_timestamp"} \subseteq DOMAIN RawArray(m, "photos")[i]
    /\ \A i \in 1..Len(RawArray(m, "videos")) :
          /\ {"uri", "creation_timestamp", "thumbnail"} \subseteq DOMAIN RawArray(m, "videos")[i]
          /\ "uri" \in DOMAIN RawArray(m, "videos")[i].thumbnail
    /\ \A i \in 1..Len(RawArray(m, "reactions")) :
          {"actor", "reaction"} \subseteq DOMAIN RawArray(m, "reactions")[i]

\* The records of `messages` whose sender is one of `names`, in order.
Passing(messages, names) == SelectSeq(messages, LAMBDA m : m.sender_name \in names)

\* The messages of chat c before the step (none when the step constructs c).
OldMessages(c) == IF c <= Len(heap) THEN heap[c].messages ELSE <<>>

\* The messages the step appends to chat c.
Appended(c) == SubSeq(heap'[c].messages, Len(OldMessages(c)) + 1, Len(heap'[c].messages))

\* The step leaves chat c's earlier messages in place and appends one message per
\* record of `raws`, in order, with that record's sender and time.
AppendsExactly(c, raws) ==
    /\ Len(heap'[c].messages) = Len(OldMessages(c)) + Len(raws)
    /\ SubSeq(heap'[c].messages, 1, Len(OldMessages(c))) = OldMessages(c)
    /\ \A k \in 1..Len(raws) :
          /\ Appended(c)[k].sender = raws[k].sender_name
          /\ Appended(c)[k].date.seconds * 1000 + Appended(c)[k].date.microseconds \div 1000
                = raws[k].timestamp_ms

\* C1: in every chat of the registry, direct or group, every message of the
\* message list has a sender that is the name of one of the chat's
\* participants (so a message of a non-participant is never in the list).
C1_SenderIsParticipant ==
    \A ref \in ChatRefs : \A k \in 1..Len(heap[ref].messages) :
        heap[ref].messages[k].sender \in ChatNames(ref)

\* A load completed whose document has a message of a registered person who is
\* not a participant of the chat, and the chat holds messages.
C1_Witness ==
    /\ IsLoad /\ last.raised = None
    /\ heap[last.chat].messages # <<>>
    /\ \E k \in 1..Len(LastDoc.messages) :
          /\ LastDoc.messages[k].sender_name \notin ChatNames(last.chat)
          /\ LastDoc.messages[k].sender_name \in PersonNames

\* C2: no chat is in both lists; and after loading a document that has a
\* thread_type, the chat it resolved to (the document's title and participants)
\* is in the direct list and not the group list when thread_type is "Regular",
\* and in the group list and not the direct list otherwise.
C2_ThreadTypeDecidesList ==
    /\ Range(chats) \cap Range(group_chats) = {}
    /\ (IsLoad /\ HasHeader(LastDoc) /\ "thread_type" \in DOMAIN LastDoc) =>
          /\ last.chat \in 1..Len(heap)
          /\ heap[last.chat].title = LastDoc.title
          /\ ChatNames(last.chat) = NamesOf(LastDoc)
          /\ IF LastDoc.thread_type = "Regular"
             THEN last.chat \in Range(chats) /\ last.chat \notin Range(group_chats)
             ELSE last.chat \in Range(group_chats) /\ last.chat \notin Range(chats)

\* A two-participant document of another thread_type was loaded into a registry
\* that holds direct and group chats.
C2_Witness ==
    /\ IsLoad /\ "thread_type" \in DOMAIN LastDoc
    /\ LastDoc.thread_type = "RegularGroup"
    /\ Len(LastDoc.participants) = 2
    /\ chats # <<>> /\ group_chats # <<>>

\* C3: a call of from_entry with an entry it was called with before adds no
\* Person (the names stay as they are, each once) and no Chat to either list;
\* when the call completes, every record of the document whose sender is a
\* participant is appended once more to the chat, after the messages already
\* there, which hold at least one earlier copy of each.
C3_ReloadAddsMessagesOnly ==
    [][(LoadStep /\ last'.entry \in entered) =>
        /\ Len(persons') = Len(persons)
        /\ \A i \in 1..Len(persons) : persons'[i].name = persons[i].name
        /\ \A i, j \in 1..Len(persons') : persons'[i].name = persons'[j].name => i = j
        /\ chats' = chats /\ group_chats' = group_chats /\ Len(heap') = Len(heap)
        /\ last'.raised = None =>
              LET passing == Passing(StepDoc.messages, NamesOf(StepDoc))
              IN  /\ last'.chat \in 1..Len(heap)
                  /\ AppendsExactly(last'.chat, passing)
                  /\ Len(heap[last'.chat].messages) >= Len(passing)
                  /\ \A ref \in 1..Len(heap) : ref # last'.chat => heap'[ref] = heap[ref]
    ]_vars

\* An entry was loaded again to completion, with a message that is appended
\* and a message that is dropped.
C3_Witness ==
    /\ IsLoad /\ last.again /\ last.raised = None
    /\ Passing(LastDoc.messages, NamesOf(LastDoc)) # <<>>
    /\ Len(Passing(LastDoc.messages, NamesOf(LastDoc))) < Len(LastDoc.messages)
    /\ Len(chats) + Len(group_chats) >= 2

\* The type a raw record is said to convert to.
ExpectedType(m) ==
    IF "type" \notin DOMAIN m THEN "FBTypeOfMsg.Unknown"
    ELSE IF m.type = "Generic" THEN "FBTypeOfMsg.Generic"
    ELSE IF m.type = "Share" THEN "FBTypeOfMsg.Share"
    ELSE "FBTypeOfMsg.Unknown"

\* C4: the type of a raw record converts through a total mapping, a record
\* without type converting to Unknown: loading a document whose records all have
\* sender_name and timestamp_ms raises nothing, and each appended message has the
\* type its record maps to.
C4_TypeMappingIsTotal ==
    [][(/\ LoadStep
        /\ "thread_type" \in DOMAIN StepDoc
        /\ \A k \in 1..Len(StepDoc.messages) :
              {"sender_name", "timestamp_ms"} \subseteq DOMAIN StepDoc.messages[k]) =>
        /\ last'.raised = None
        /\ LET passing == Passing(StepDoc.messages, NamesOf(StepDoc))
           IN  /\ Len(Appended(last'.chat)) = Len(passing)
               /\ \A k \in 1..Len(passing) :
                     Appended(last'.chat)[k].type = ExpectedType(passing[k])
    ]_vars

\* The reactions array of a raw record ([] when it has none).
RawReactions(m) == RawArray(m, "reactions")

\* C5: every message the loader stores holds one Reaction entity per record of
\* the raw reactions array, in order, whose actor is the Person of the registry
\* named by the record's actor.
C5_ReactionsAreEntities ==
    [][(LoadStep /\ last'.raised = None) =>
        LET passing == Passing(StepDoc.messages, NamesOf(StepDoc))
        IN  \A k \in 1..Len(passing) :
               LET stored == Appended(last'.chat)[k].reactions
                   raw == RawReactions(passing[k])
               IN  /\ Len(stored) = Len(raw)
                   /\ \A j \in 1..Len(raw) :
                         /\ "class" \in DOMAIN stored[j]
                         /\ stored[j].class = "FBReaction"
                         /\ stored[j].actor \in 1..Len(persons')
                         /\ persons'[stored[j].actor].name = raw[j].actor
                         /\ stored[j].reaction = raw[j].reaction
    ]_vars

OptionalFields == {"content", "photos", "videos", "share"}

\* C9 as stated: for each of content, photos, videos and share, an appended
\* message holds None for the field exactly when its raw record lacks the key; a
\* record with photos: [] gives a message whose photos is the empty list, which
\* is not None.
C9_AbsentIsNone ==
    [][(LoadStep /\ last'.raised = None) =>
        LET passing == Passing(StepDoc.messages, NamesOf(StepDoc))
        IN  /\ Len(Appended(last'.chat)) = Len(passing)
            /\ \A k \in 1..Len(passing) :
                  /\ \A f \in OptionalFields :
                        (Appended(last'.chat)[k][f] = None) <=> (f \notin DOMAIN passing[k])
                  /\ (HoldsValue(passing[k], "photos") /\ passing[k].photos[1] = <<>>) =>
                        /\ Appended(last'.chat)[k].photos = Some(<<>>)
                        /\ Appended(last'.chat)[k].photos # None
    ]_vars

\* C9 as amended: for each of content, photos, videos and share, an appended
\* message holds None for the field exactly when its raw record lacks the key or
\* holds null under it; a record with photos: [] gives a message whose photos is
\* the empty list, which is not None.
C9_AbsentOrNullIsNone ==
    [][(LoadStep /\ last'.raised = None) =>
        LET passing == Passing(StepDoc.messages, NamesOf(StepDoc))
        IN  /\ Len(Appended(last'.chat)) = Len(passing)
            /\ \A k \in 1..Len(passing) :
                  /\ \A f \in OptionalFields :
                        (Appended(last'.chat)[k][f] = None)
                            <=> (f \notin DOMAIN passing[k] \/ HoldsNull(passing[k], f))
                  /\ (HoldsValue(passing[k], "photos") /\ passing[k].photos[1] = <<>>) =>
                        /\ Appended(last'.chat)[k].photos = Some(<<>>)
                        /\ Appended(last'.chat)[k].photos # None
    ]_vars

\* A load stored the messages of a record with photos: null and without content
\* and of a record with photos: [].
C9_Witness ==
    /\ IsLoad /\ last.raised = None
    /\ Len(LastDoc.messages) = 2
    /\ Len(heap[last.chat].messages) = 2
    /\ HoldsNull(LastDoc.messages[1], "photos")
    /\ "content" \notin DOMAIN LastDoc.messages[1]
    /\ HoldsValue(LastDoc.messages[2], "photos")
    /\ LastDoc.messages[2].photos[1] = <<>>
    /\ heap[last.chat].messages[1].photos = None
    /\ heap[last.chat].messages[1].content = None
    /\ heap[last.chat].messages[2].photos = Some(<<>>)

\* The records of `messages` that lack sender_name or timestamp_ms, and the
\* index of the first of them.
Faulty(messages) ==
    {k \in 1..Len(messages) : ~({"sender_name", "timestamp_ms"} \subseteq DOMAIN messages[k])}

FirstFaulty(messages) == Min(Faulty(messages))

SenderOrTimestampFault == {KeyError("sender_name"), KeyError("timestamp_ms")}

\* Loading the document gets to a record that lacks sender_name or timestamp_ms:
\* the document has its own keys and every record before that one is complete.
ReachesFaulty(doc) ==
    /\ HasHeader(doc) /\ {"thread_type", "messages"} \subseteq DOMAIN doc
    /\ Faulty(doc.messages) # {}
    /\ \A j \in 1..(FirstFaulty(doc.messages) - 1) :
          HasRequired(doc.messages[j]) /\ WellFormedParts(doc.messages[j])

\* C10: when from_entry gets to a record that lacks sender_name or
\* timestamp_ms, the call raises (the KeyError of the missing field, when the
\* record's photos, videos and reactions are well formed) and nothing is rolled
\* back: the entry's participants are registered, the entry's chat is in its
\* list, the records before the faulty one that pass the sender check are
\* appended and no later one is, and no person's chat mappings change (a person
\* the entry registered has none).
C10_AbortKeepsPartialLoad ==
    [][(LoadStep /\ ReachesFaulty(StepDoc)) =>
        LET c == last'.chat
            k == FirstFaulty(StepDoc.messages)
            before == SubSeq(StepDoc.messages, 1, k - 1)
        IN  /\ last'.raised # None
            /\ WellFormedParts(StepDoc.messages[k]) => last'.raised \in SenderOrTimestampFault
            /\ NamesOf(StepDoc) \subseteq {persons'[i].name : i \in 1..Len(persons')}
            /\ c \in 1..Len(heap')
            /\ heap'[c].title = StepDoc.title
            /\ IF StepDoc.thread_type = "Regular"
               THEN c \in Range(chats') ELSE c \in Range(group_chats')
            /\ AppendsExactly(c, Passing(before, NamesOf(StepDoc)))
            /\ \A i \in 1..Len(persons) : persons'[i] = persons[i]
            /\ \A i \in (Len(persons) + 1)..Len(persons') :
                  persons'[i].chats = EmptyDict /\ persons'[i].group_chats = EmptyDict
    ]_vars

\* The first load of a registry raised at a record that follows an appended
\* message and precedes a record of a participant.
C10_Witness ==
    /\ IsLoad /\ ncalls = 1 /\ last.raised \in SenderOrTimestampFault
    /\ FirstFaulty(LastDoc.messages) > 1
    /\ FirstFaulty(LastDoc.messages) < Len(LastDoc.messages)
    /\ HasRequired(LastDoc.messages[Len(LastDoc.messages)])
    /\ LastDoc.messages[Len(LastDoc.messages)].sender_name \in NamesOf(LastDoc)
    /\ Len(heap[last.chat].messages) = 1
    /\ persons # <<>>

\* The lists with the elements of l in every order.
Orderings(l) ==
    {[i \in 1..Len(l) |-> l[f[i]]] :
        f \in {g \in [1..Len(l) -> 1..Len(l)] : \A i, j \in 1..Len(l) : g[i] = g[j] => i = j}}

Count(x, l) == Cardinality({i \in 1..Len(l) : l[i] = x})

\* Two lists hold the same names, each as often.
SameNames(l1, l2) ==
    /\ Len(l1) = Len(l2)
    /\ \A x \in Range(l1) \cup Range(l2) : Count(x, l1) = Count(x, l2)

ChatNameList(ref) ==
    [i \in 1..Len(heap[ref].participants) |-> persons[heap[ref].participants[i]].name]

\* The first chat of the searched list with the title and the participants.
FirstMatch(title, names, search_groups) ==
    LET chat_list == IF search_groups THEN group_chats ELSE chats
        hits == {i \in 1..Len(chat_list) :
                    /\ heap[chat_list[i]].title = title
                    /\ SameNames(ChatNameList(chat_list[i]), names)}
    IN  IF hits = {} THEN NoneRef ELSE chat_list[Min(hits)]

\* C6: find_chat with a participants list returns the first chat of the
\* searched list that has the title and the same participant names, and
\* returns that same chat (or None) for every order of the list.
C6_FindChatIgnoresOrder ==
    (last.op = "find_chat" /\ last.participants # None) =>
        /\ last.result = FirstMatch(last.title, last.participants[1], last.search_groups)
        /\ \A p \in Orderings(last.participants[1]) :
              find_chat(Self, last.title, Some(p), last.search_groups) = last.result

\* A lookup with the names in descending order found a chat that is not the
\* first of its list with that title.
C6_Witness ==
    /\ last.op = "find_chat"
    /\ last.participants = Some(<<AB, A>>)
    /\ last.result # NoneRef
    /\ LET chat_list == IF last.search_groups THEN group_chats ELSE chats
       IN  \E i \in 1..Len(chat_list) :
              /\ heap[chat_list[i]].title = last.title
              /\ chat_list[i] # last.result
              /\ \E j \in (i + 1)..Len(chat_list) : chat_list[j] = last.result

\* The documents a query was given.
LastDocs == [i \in 1..Len(last.entries) |-> files[last.entries[i]]]

\* The places of the reaction records: document, message, index in the array.
ReactionPlaces(docs) ==
    UNION {UNION {{<<d, m, r>> : r \in 1..Len(RawReactions(docs[d].messages[m]))} :
                     m \in 1..Len(docs[d].messages)} :
              d \in 1..Len(docs)}

ActorAt(docs, place) == docs[place[1]].messages[place[2]].reactions[1][place[3]].actor

RECURSIVE SumOver(_, _)
SumOver(f, keys) ==
    IF keys = {} THEN 0
    ELSE LET k == CHOOSE x \in keys : TRUE IN f[k] + SumOver(f, keys \ {k})

\* C7: count_reacts returns a mapping whose keys are the actor names of the
\* reaction records of the documents and whose value for a name is the number
\* of reaction records with exactly that actor; the values add up to the number
\* of reaction records.
C7_CountReactsTallies ==
    (last.op = "count_reacts") =>
        LET places == ReactionPlaces(LastDocs)
        IN  /\ DOMAIN last.result = {ActorAt(LastDocs, place) : place \in places}
            /\ \A actor \in DOMAIN last.result :
                  last.result[actor] =
                      Cardinality({place \in places : ActorAt(LastDocs, place) = actor})
            /\ SumOver(last.result, DOMAIN last.result) = Cardinality(places)

\* A count over documents with a message without reactions, in which A reacted
\* more than once and "a" is counted apart from A.
C7_Witness ==
    /\ last.op = "count_reacts"
    /\ \E d \in 1..Len(LastDocs) : \E m \in 1..Len(LastDocs[d].messages) :
          "reactions" \notin DOMAIN LastDocs[d].messages[m]
    /\ {A, Str_a, B} \subseteq DOMAIN last.result
    /\ last.result[A] >= 2
    /\ last.result[Str_a] = 1

\* sub is a contiguous part of s.
IsSubstring(sub, s) == \E i \in 0..Len(s) : \E j \in i..Len(s) : SubSeq(s, i + 1, j) = sub

\* The places of the messages: document, message.
MessagePlaces(docs) ==
    UNION {{<<d, m>> : m \in 1..Len(docs[d].messages)} : d \in 1..Len(docs)}

\* C8: count_occurrence returns the number of messages that have a content
\* containing the keyword and, when a sender is given, a sender_name
\* containing it; a message counts once; keyword and content are lower-cased
\* first when use_lowercase is set and compared as they are otherwise.
C8_CountOccurrenceCountsMessages ==
    (last.op = "count_occurrence") =>
        LET fold(str) == IF last.use_lowercase THEN lower(str) ELSE str
            matches ==
                {place \in MessagePlaces(LastDocs) :
                    LET m == LastDocs[place[1]].messages[place[2]]
                    IN  /\ "content" \in DOMAIN m
                        /\ last.sender # None => IsSubstring(last.sender[1], m.sender_name)
                        /\ IsSubstring(fold(last.keyword), fold(m.content[1]))}
        IN  last.result = Cardinality(matches)

\* A case-insensitive count with a sender, over documents with a message that
\* holds the keyword twice, one that holds it in another case and one whose
\* sender_name is longer than the sender asked for.
C8_Witness ==
    /\ last.op = "count_occurrence"
    /\ last.use_lowercase /\ last.keyword = Str_a /\ last.sender = Some(B)
    /\ last.result = 3
    /\ \E place \in MessagePlaces(LastDocs) :
          LET m == LastDocs[place[1]].messages[place[2]]
          IN  "content" \in DOMAIN m /\ m.content = Some(Str_aa) /\ m.sender_name = B
    /\ \E place \in MessagePlaces(LastDocs) :
          LET m == LastDocs[place[1]].messages[place[2]]
          IN  "content" \in DOMAIN m /\ m.content = Some(Str_bAb)
    /\ \E place \in MessagePlaces(LastDocs) :
          LET m == LastDocs[place[1]].messages[place[2]]
          IN  "content" \in DOMAIN m /\ m.sender_name = AB

====
